---------------------------- MODULE Spec2Model ----------------------------
(***************************************************************************)
(* State-machine model of MADlib's logistic-regression aggregates          *)
(* (conjugate gradient and iteratively-reweighted least squares,           *)
(* src/modules/regress/logistic.cpp) and of the Student-t distribution     *)
(* function (src/modules/prob/student.cpp).                                *)
(*                                                                         *)
(* Numbers.  A C++ double is modelled as a fixed-point number: the integer *)
(* v stands for the real v / Scale.  Sums and differences are exact;       *)
(* products and quotients are rounded to the nearest multiple of 1/Scale.  *)
(* The three IEEE-754 special values +inf, -inf and NaN are kept, with the *)
(* IEEE rules for them (x/0, 0/0, inf-inf, 0*inf, propagation of NaN).     *)
(***************************************************************************)
EXTENDS Integers, Sequences, FiniteSets, TLC

(***************************************************************************)
(* Bounds of the model.                                                    *)
(***************************************************************************)
\* resolution of the fixed-point numbers: 1.0 is represented by Scale, which
\* is even, so that the literal .5 of the code is a number of the model
HalfScale == 8
Scale == 2 * HalfScale
\* the largest number of rows of a data set
MaxRows == 3
\* the number of passes (aggregate calls) the driver runs over the data
MaxPass == 4
\* the number of workers that scan the data in parallel
NumWorkers == 3

(***************************************************************************)
(* IEEE-754 double arithmetic on fixed-point numbers                       *)
(***************************************************************************)
PInf == 10^9
NInf == -PInf
NaN == 2 * PInf

One == Scale

IsNaN(a) == a = NaN
IsInf(a) == a = PInf \/ a = NInf
IsFinite(a) == ~IsNaN(a) /\ ~IsInf(a)

Abs(n) == IF n < 0 THEN -n ELSE n

\* a / b for integers, b # 0, rounded to the nearest integer (half away from 0)
RoundDiv(a, b) ==
    LET q == (2 * Abs(a) + Abs(b)) \div (2 * Abs(b))
    IN  IF (a < 0) = (b < 0) THEN q ELSE -q

FNeg(a) ==
    IF IsNaN(a) THEN NaN
    ELSE IF a = PInf THEN NInf
    ELSE IF a = NInf THEN PInf
    ELSE -a

FAdd(a, b) ==
    IF IsNaN(a) \/ IsNaN(b) THEN NaN
    ELSE IF IsInf(a) THEN (IF IsInf(b) /\ a # b THEN NaN ELSE a)
    ELSE IF IsInf(b) THEN b
    ELSE a + b

FSub(a, b) == FAdd(a, FNeg(b))

\* the sign of a number that is not NaN: -1, 0 or 1
Sgn(a) == IF a = 0 THEN 0 ELSE IF a < 0 THEN -1 ELSE 1

FMul(a, b) ==
    IF IsNaN(a) \/ IsNaN(b) THEN NaN
    ELSE IF IsInf(a) \/ IsInf(b)
         THEN (IF Sgn(a) * Sgn(b) = 0 THEN NaN
               ELSE IF Sgn(a) * Sgn(b) > 0 THEN PInf ELSE NInf)
    ELSE RoundDiv(a * b, Scale)

FDiv(a, b) ==
    IF IsNaN(a) \/ IsNaN(b) THEN NaN
    ELSE IF IsInf(a)
         THEN (IF IsInf(b) THEN NaN
               ELSE IF Sgn(a) * (IF b < 0 THEN -1 ELSE 1) > 0 THEN PInf ELSE NInf)
    ELSE IF IsInf(b) THEN 0
    ELSE IF b = 0
         THEN (IF a = 0 THEN NaN ELSE IF a > 0 THEN PInf ELSE NInf)
    ELSE RoundDiv(a * Scale, b)

\* std::abs on a double
FAbs(a) ==
    IF IsNaN(a) THEN NaN
    ELSE IF IsInf(a) THEN PInf
    ELSE Abs(a)

\* IEEE comparisons: every comparison with NaN is false
FLt(a, b) ==
    /\ ~IsNaN(a) /\ ~IsNaN(b)
    /\ a # b
    /\ \/ a = NInf
       \/ b = PInf
       \/ IsFinite(a) /\ IsFinite(b) /\ a < b

FLe(a, b) == ~IsNaN(a) /\ ~IsNaN(b) /\ (a = b \/ FLt(a, b))

(***************************************************************************)
(* Integer arithmetic of the code: uint16_t operands, int (32 bits)        *)
(* expressions, uint32_t results.  The values go beyond the integers of    *)
(* the model checker, so a number is kept as two digits to the base 2^16:  *)
(* the record [hi, lo] stands for hi * 2^16 + lo, with lo below 2^16 and   *)
(* hi as large as the exact value needs.                                   *)
(***************************************************************************)
UINT16_MAX == 65535
Base16 == UINT16_MAX + 1

W(hi, lo) == [ hi |-> hi + lo \div Base16, lo |-> lo % Base16 ]

\* a number below 2^31
WNum(n) == W(0, n)

WAdd(a, b) == W(a.hi + b.hi, a.lo + b.lo)

\* the exact product of two uint16_t values, by their bytes
WMul(a, b) ==
    LET ah == a \div 256
        al == a % 256
        bh == b \div 256
        bl == b % 256
        mid == ah * bl + al * bh
    IN  W(ah * bh + mid \div 256, (mid % 256) * 256 + al * bl)

WLt(a, b) == a.hi < b.hi \/ (a.hi = b.hi /\ a.lo < b.lo)

\* an int expression of non-negative terms whose exact value is x overflows
\* when x is beyond INT_MAX: undefined behaviour
IntOverflow(x) == x.hi >= Base16 \div 2

\* the 32 bits a build that wraps on overflow computes for it; they are also
\* the uint32_t the int converts to
IntWrap(x) == [ hi |-> x.hi % Base16, lo |-> x.lo ]

\* the 32 bits of an int read as an index: negative from 2^31 on
IndexNegative(i) == i.hi >= Base16 \div 2

\* what a signed overflow does: the build wraps, or it traps (-ftrapv)
OverflowOutcomes == { "wrap", "trap" }

(***************************************************************************)
(* std::exp and std::log: e^k for the integers k in -7 .. 7 in thousandths, *)
(* linear in between; exp underflows to 0 below the table and overflows to *)
(* +inf above it (as the double's exp does, at a larger argument).         *)
(***************************************************************************)
ExpMilli ==
    << 1, 2, 7, 18, 50, 135, 368, 1000,
       2718, 7389, 20086, 54598, 148413, 403429, 1096633 >>

ExpHi == (Len(ExpMilli) - 1) \div 2
ExpLo == -ExpHi

ExpAt(k) == RoundDiv(Scale * ExpMilli[k - ExpLo + 1], 1000)

Exp(x) ==
    IF IsNaN(x) THEN NaN
    ELSE IF x = PInf THEN PInf
    ELSE IF x = NInf THEN 0
    ELSE IF x >= ExpHi * Scale THEN PInf
    ELSE IF x < ExpLo * Scale THEN 0
    ELSE LET k == x \div Scale
             f == x % Scale
         IN  ExpAt(k) + RoundDiv((ExpAt(k + 1) - ExpAt(k)) * f, Scale)

Log(u) ==
    IF IsNaN(u) THEN NaN
    ELSE IF u = PInf THEN PInf
    ELSE IF u = NInf \/ u < 0 THEN NaN
    ELSE IF u = 0 THEN NInf
    ELSE IF u < ExpAt(ExpLo) THEN ExpLo * Scale
    ELSE LET k == CHOOSE i \in ExpLo .. ExpHi :
                    /\ ExpAt(i) <= u
                    /\ (i = ExpHi \/ ExpAt(i + 1) > u)
         IN  IF k = ExpHi THEN ExpHi * Scale
             ELSE k * Scale + RoundDiv((u - ExpAt(k)) * Scale,
                                       ExpAt(k + 1) - ExpAt(k))

(***************************************************************************)
(* Vectors (arma::colvec / DoubleCol) are sequences of numbers; a matrix   *)
(* (DoubleMat) is the sequence of its elements in column-major order.      *)
(***************************************************************************)
Zeros(n) == [i \in 1 .. n |-> 0]

RECURSIVE SumSeq(_)
SumSeq(s) == IF s = << >> THEN 0 ELSE FAdd(SumSeq(SubSeq(s, 1, Len(s) - 1)), s[Len(s)])

\* dot(a, b), and as_scalar(x * v) for a row x and a column v
Dot(a, b) == SumSeq([i \in 1 .. Len(a) |-> FMul(a[i], b[i])])

VAdd(a, b) == [i \in 1 .. Len(a) |-> FAdd(a[i], b[i])]
VSub(a, b) == [i \in 1 .. Len(a) |-> FSub(a[i], b[i])]
VScale(c, a) == [i \in 1 .. Len(a) |-> FMul(c, a[i])]

\* what an unchecked build reads for a row x through an accumulator of
\* width w: the first w elements of x, and 0 past the end of x
Pad(x, w) == [i \in 1 .. w |-> IF i <= Len(x) THEN x[i] ELSE 0]

\* static double sigma(double x)
sigma(x) == FDiv(One, FAdd(One, Exp(FNeg(x))))

\* the log-likelihood term of one row: std::log(1. + std::exp(-y * xc))
LogLikTerm(y, xc) == Log(FAdd(One, Exp(FMul(FNeg(y), xc))))

\* what a call does: it returns a value, or it throws
Ret(v) == [ exc |-> "", out |-> << v >> ]
Exc(e) == [ exc |-> e, out |-> << >> ]

(***************************************************************************)
(* LogisticRegressionCG::State                                             *)
(***************************************************************************)
CGarraySize(inWidthOfX) == 6 + 4 * inWidthOfX

\* the array the database hands to the first transition call: all zeros
CGZero ==
    [ iteration |-> 0, widthOfX |-> 0, coef |-> << >>, dir |-> << >>,
      grad |-> << >>, beta |-> 0,
      numRows |-> 0, gradNew |-> << >>, dTHd |-> 0, logLikelihood |-> 0 ]

CGreset(s) ==
    [ s EXCEPT !.numRows = 0, !.dTHd = 0,
               !.gradNew = Zeros(s.widthOfX), !.logLikelihood = 0 ]

CGinitialize(s, inWidthOfX) ==
    CGreset([ s EXCEPT !.iteration = 0, !.widthOfX = inWidthOfX,
                       !.coef = Zeros(inWidthOfX), !.dir = Zeros(inWidthOfX),
                       !.grad = Zeros(inWidthOfX), !.beta = 0 ])

\* State::operator=: the whole storage of the other state is copied
CGassign(s, inOtherState) == inOtherState

CGsize(s) == CGarraySize(s.widthOfX)

\* a check that also takes states of different iterations or coefficients
\* for incompatible
CGincompatibleInter(s, inOtherState) ==
    \/ CGsize(s) # CGsize(inOtherState) \/ s.widthOfX # inOtherState.widthOfX
    \/ s.iteration # inOtherState.iteration \/ s.coef # inOtherState.coef

\* the test of State::operator+=
CGincompatible(s, inOtherState) ==
    CGsize(s) # CGsize(inOtherState) \/ s.widthOfX # inOtherState.widthOfX

\* operator+= with the log-likelihood of the other state taken off, not added
CGplusEqMinus(s, inOtherState) ==
    [ s EXCEPT !.numRows = @ + inOtherState.numRows,
               !.gradNew = VAdd(@, inOtherState.gradNew),
               !.dTHd = FAdd(@, inOtherState.dTHd),
               !.logLikelihood = FSub(@, inOtherState.logLikelihood) ]

\* State::operator+= past its check
CGplusEq(s, inOtherState) ==
    [ s EXCEPT !.numRows = @ + inOtherState.numRows,
               !.gradNew = VAdd(@, inOtherState.gradNew),
               !.dTHd = FAdd(@, inOtherState.dTHd),
               !.logLikelihood = FAdd(@, inOtherState.logLikelihood) ]

\* the inter-iteration and the intra-iteration components of a state
CGInter(s) == << s.iteration, s.widthOfX, s.coef, s.dir, s.grad, s.beta >>
CGIntra(s) == << s.numRows, s.gradNew, s.dTHd, s.logLikelihood >>

\* transition, lines 182-190: the first row of a pass sizes the state and
\* takes over the previous state, if one is given (prev is << >> or <<state>>)
CGfirstRow(state, x, prev) ==
    IF state.numRows = 0
    THEN IF prev # << >>
         THEN CGreset(CGassign(CGinitialize(state, Len(x) % 2^16), prev[1]))
         ELSE CGinitialize(state, Len(x) % 2^16)
    ELSE state

\* a transition step that writes the gradient term into grad, an
\* inter-iteration component, not into gradNew
CGstepIntoGrad(state, y, x) ==
    LET xc == Dot(x, state.coef)
    IN  [ state EXCEPT
            !.numRows = @ + 1,
            !.grad = VAdd(@, VScale(FMul(sigma(FMul(FNeg(y), xc)), y), x)),
            !.logLikelihood = FSub(@, LogLikTerm(y, xc)) ]

\* a transition step that updates gradNew and dTHd in every iteration
CGstepBoth(state, y, x) ==
    LET xc == Dot(x, state.coef)
        xd == Dot(x, state.dir)
    IN  [ state EXCEPT
            !.numRows = @ + 1,
            !.gradNew = VAdd(@, VScale(FMul(sigma(FMul(FNeg(y), xc)), y), x)),
            !.dTHd = FSub(@, FMul(FMul(FMul(sigma(xc), sigma(FNeg(xc))), xd), xd)),
            !.logLikelihood = FSub(@, LogLikTerm(y, xc)) ]

\* transition, lines 192-210: the transition step for label y and row x
CGstep(state, y, x) ==
    LET xc == Dot(x, state.coef)
        xd == Dot(x, state.dir)
    IN  [ state EXCEPT
            !.numRows = @ + 1,
            !.gradNew = IF state.iteration % 2 = 0
                        THEN VAdd(@, VScale(FMul(sigma(FMul(FNeg(y), xc)), y), x))
                        ELSE @,
            !.dTHd = IF state.iteration % 2 = 0
                     THEN @
                     ELSE FSub(@, FMul(FMul(FMul(sigma(xc), sigma(FNeg(xc))), xd), xd)),
            !.logLikelihood = FSub(@, LogLikTerm(y, xc)) ]

\* a first final that sets the direction only
CGfinalFirstDirOnly(state) == [ state EXCEPT !.dir = state.gradNew ]

\* final, lines 240-244: iteration 0
CGfinalFirst(state) ==
    [ state EXCEPT !.dir = state.gradNew, !.grad = state.gradNew ]

\* an even final that also takes the step along the direction
CGfinalEvenSteps(state) ==
    LET gradNewMinusGrad == VSub(state.gradNew, state.grad)
        beta == FDiv(Dot(state.gradNew, gradNewMinusGrad),
                     Dot(state.dir, gradNewMinusGrad))
    IN  [ state EXCEPT
            !.coef = VSub(@, VScale(FDiv(Dot(state.grad, state.dir), state.dTHd),
                                    state.dir)),
            !.beta = beta,
            !.dir = VSub(state.gradNew, VScale(beta, state.dir)),
            !.grad = state.gradNew ]

\* an even final that overwrites grad before it takes the difference
CGfinalEvenGradFirst(state) ==
    LET grad == state.gradNew
        gradNewMinusGrad == VSub(state.gradNew, grad)
        beta == FDiv(Dot(state.gradNew, gradNewMinusGrad),
                     Dot(state.dir, gradNewMinusGrad))
    IN  [ state EXCEPT
            !.beta = beta,
            !.dir = VSub(state.gradNew, VScale(beta, state.dir)),
            !.grad = grad ]

\* final, lines 245-260: even iterations after the first
CGfinalEven(state) ==
    LET gradNewMinusGrad == VSub(state.gradNew, state.grad)
        beta == FDiv(Dot(state.gradNew, gradNewMinusGrad),
                     Dot(state.dir, gradNewMinusGrad))
    IN  [ state EXCEPT
            !.beta = beta,
            !.dir = VSub(state.gradNew, VScale(beta, state.dir)),
            !.grad = state.gradNew ]

\* an odd final that adds the step
CGfinalOddPlus(state) ==
    [ state EXCEPT
        !.coef = VAdd(@, VScale(FDiv(Dot(state.grad, state.dir), state.dTHd),
                                state.dir)) ]

\* final, lines 261-272: odd iterations
CGfinalOdd(state) ==
    [ state EXCEPT
        !.coef = VSub(@, VScale(FDiv(Dot(state.grad, state.dir), state.dTHd),
                                state.dir)) ]

\* a final that counts the iterations after the first only
CGfinalStepFirstUncounted(state) ==
    IF state.iteration = 0 THEN CGfinalFirst(state)
    ELSE [ (IF state.iteration % 2 = 0 THEN CGfinalEven(state)
            ELSE CGfinalOdd(state)) EXCEPT !.iteration = @ + 1 ]

\* final
CGfinalStep(state) ==
    LET upd == IF state.iteration = 0 THEN CGfinalFirst(state)
               ELSE IF state.iteration % 2 = 0 THEN CGfinalEven(state)
               ELSE CGfinalOdd(state)
    IN  [ upd EXCEPT !.iteration = @ + 1 ]

(***************************************************************************)
(* LogisticRegressionCG::transition.  prev is << >> for a null previous    *)
(* state.  When the row and the state differ in width, x * state.coef      *)
(* multiplies a row and a column of different lengths, and a previous      *)
(* state of another width is copied over storage sized for the row.  The   *)
(* function itself tests neither: the libraries throw std::logic_error if  *)
(* they are built to check sizes (checks), and if they are not, the row is *)
(* read through the state's width.                                         *)
(***************************************************************************)
CGtransition(arg, y, x, prev, checks) ==
    LET state == CGfirstRow(arg, x, prev)
    IN  IF Len(x) # state.widthOfX /\ checks THEN Exc("logic_error")
        ELSE Ret(CGstep(state, y, Pad(x, state.widthOfX)))

\* a mergeStates that checks the two states before it looks for an empty one
CGmergeStatesCheckFirst(stateLeft, stateRight) ==
    IF CGincompatible(stateLeft, stateRight) THEN Exc("logic_error")
    ELSE IF stateLeft.numRows = 0 THEN Ret(stateRight)
    ELSE IF stateRight.numRows = 0 THEN Ret(stateLeft)
    ELSE Ret(CGplusEq(stateLeft, stateRight))

\* LogisticRegressionCG::mergeStates
CGmergeStates(stateLeft, stateRight) ==
    IF stateLeft.numRows = 0 THEN Ret(stateRight)
    ELSE IF stateRight.numRows = 0 THEN Ret(stateLeft)
    ELSE IF CGincompatible(stateLeft, stateRight) THEN Exc("logic_error")
    ELSE Ret(CGplusEq(stateLeft, stateRight))

\* a final that resets the intra-iteration components before it returns
CGfinalReset(state) == Ret(CGreset(CGfinalStep(state)))

\* LogisticRegressionCG::final
CGfinal(state) == Ret(CGfinalStep(state))

\* a distance without std::abs
CGdistanceSigned(stateLeft, stateRight) ==
    FSub(stateLeft.logLikelihood, stateRight.logLikelihood)

\* LogisticRegressionCG::distance
CGdistance(stateLeft, stateRight) ==
    FAbs(FSub(stateLeft.logLikelihood, stateRight.logLikelihood))

(***************************************************************************)
(* LogisticRegressionIRLS::State                                           *)
(***************************************************************************)
\* the exact value of the int expression 3 + w * w + 2 * w of arraySize
IRLSarraySizeExact(inWidthOfX) ==
    WAdd(WAdd(WNum(3), WMul(inWidthOfX, inWidthOfX)), WNum(2 * inWidthOfX))

\* static inline uint32_t arraySize(const uint16_t inWidthOfX): the 32 bits
\* returned (on a build that does not trap on the overflow of the int)
IRLSarraySize(inWidthOfX) == IntWrap(IRLSarraySizeExact(inWidthOfX))

IRLSZero ==
    [ widthOfX |-> 0, coef |-> << >>,
      numRows |-> 0, X_transp_Az |-> << >>, X_transp_AX |-> << >>,
      logLikelihood |-> 0 ]

IRLSreset(s) ==
    [ s EXCEPT !.numRows = 0, !.X_transp_Az = Zeros(s.widthOfX),
               !.X_transp_AX = Zeros(s.widthOfX * s.widthOfX),
               !.logLikelihood = 0 ]

IRLSinitialize(s, inWidthOfX) ==
    IRLSreset([ s EXCEPT !.widthOfX = inWidthOfX, !.coef = Zeros(inWidthOfX) ])

IRLSassign(s, inOtherState) == inOtherState

IRLSsize(s) == IRLSarraySize(s.widthOfX)

IRLSincompatible(s, inOtherState) ==
    IRLSsize(s) # IRLSsize(inOtherState) \/ s.widthOfX # inOtherState.widthOfX

\* operator+= that leaves the rows of the other state uncounted
IRLSplusEqNoRows(s, inOtherState) ==
    [ s EXCEPT !.X_transp_Az = VAdd(@, inOtherState.X_transp_Az),
               !.X_transp_AX = VAdd(@, inOtherState.X_transp_AX),
               !.logLikelihood = FAdd(@, inOtherState.logLikelihood) ]

\* State::operator+= past its check
IRLSplusEq(s, inOtherState) ==
    [ s EXCEPT !.numRows = @ + inOtherState.numRows,
               !.X_transp_Az = VAdd(@, inOtherState.X_transp_Az),
               !.X_transp_AX = VAdd(@, inOtherState.X_transp_AX),
               !.logLikelihood = FAdd(@, inOtherState.logLikelihood) ]

IRLSInter(s) == << s.widthOfX, s.coef >>
IRLSIntra(s) == << s.numRows, s.X_transp_Az, s.X_transp_AX, s.logLikelihood >>

\* a first row that takes the previous state over without reset()
IRLSfirstRowNoReset(state, x, prev) ==
    IF state.numRows = 0
    THEN IF prev # << >>
         THEN IRLSassign(IRLSinitialize(state, Len(x) % 2^16), prev[1])
         ELSE IRLSinitialize(state, Len(x) % 2^16)
    ELSE state

\* transition, lines 423-431: the first row of a pass
IRLSfirstRow(state, x, prev) ==
    IF state.numRows = 0
    THEN IF prev # << >>
         THEN IRLSreset(IRLSassign(IRLSinitialize(state, Len(x) % 2^16), prev[1]))
         ELSE IRLSinitialize(state, Len(x) % 2^16)
    ELSE state

IRLSstep(state, y, x) ==
    LET w == state.widthOfX
        xc == Dot(x, state.coef)
        a == FMul(sigma(xc), sigma(FNeg(xc)))
        z == FAdd(xc, FDiv(FMul(sigma(FMul(FNeg(y), xc)), y), a))
    IN  [ state EXCEPT
            !.numRows = @ + 1,
            !.X_transp_Az =
                VAdd(@, [i \in 1 .. w |-> FMul(FMul(x[i], a), z)]),
            !.X_transp_AX =
                VAdd(@, [k \in 1 .. w * w |->
                           FMul(FMul(x[((k - 1) % w) + 1], a),
                                x[((k - 1) \div w) + 1])]),
            !.logLikelihood = FSub(@, LogLikTerm(y, xc)) ]

\* arma::pinv of a w x w matrix, w <= 2, with finite elements: the
\* Moore-Penrose pseudo-inverse (the inverse, if there is one)
pinv(M, w) ==
    IF w = 0 THEN << >>
    ELSE IF w = 1 THEN << (IF M[1] = 0 THEN 0 ELSE FDiv(One, M[1])) >>
    ELSE LET det == FSub(FMul(M[1], M[4]), FMul(M[3], M[2]))
             n2 == SumSeq([k \in 1 .. 4 |-> FMul(M[k], M[k])])
         IN  IF det # 0
             THEN << FDiv(M[4], det), FDiv(FNeg(M[2]), det),
                     FDiv(FNeg(M[3]), det), FDiv(M[1], det) >>
             ELSE IF n2 = 0 THEN Zeros(4)
             ELSE << FDiv(M[1], n2), FDiv(M[3], n2),
                     FDiv(M[2], n2), FDiv(M[4], n2) >>

\* M * v for a w x w matrix M
MatVec(M, v, w) ==
    [i \in 1 .. w |-> SumSeq([j \in 1 .. w |-> FMul(M[i + (j - 1) * w], v[j])])]

AllFinite(v) == \A i \in 1 .. Len(v) : IsFinite(v[i])

\* final, when pinv returns
IRLSfinalStep(state) ==
    [ state EXCEPT
        !.coef = MatVec(pinv(state.X_transp_AX, state.widthOfX),
                        state.X_transp_Az, state.widthOfX) ]

\* final, when pinv is handed a matrix with a NaN or an infinity and does
\* not throw: the coefficients are NaN
IRLSfinalNaN(state) ==
    [ state EXCEPT !.coef = [i \in 1 .. state.widthOfX |-> NaN] ]

\* LogisticRegressionIRLS::transition
IRLStransition(arg, y, x, prev, checks) ==
    LET state == IRLSfirstRow(arg, x, prev)
    IN  IF Len(x) # state.widthOfX /\ checks THEN Exc("logic_error")
        ELSE Ret(IRLSstep(state, y, Pad(x, state.widthOfX)))

\* a mergeStates that keeps the left state when the two do not fit together
IRLSmergeStatesNoThrow(stateLeft, stateRight) ==
    IF stateLeft.numRows = 0 THEN Ret(stateRight)
    ELSE IF stateRight.numRows = 0 THEN Ret(stateLeft)
    ELSE IF IRLSincompatible(stateLeft, stateRight) THEN Ret(stateLeft)
    ELSE Ret(IRLSplusEq(stateLeft, stateRight))

\* LogisticRegressionIRLS::mergeStates
IRLSmergeStates(stateLeft, stateRight) ==
    IF stateLeft.numRows = 0 THEN Ret(stateRight)
    ELSE IF stateRight.numRows = 0 THEN Ret(stateLeft)
    ELSE IF IRLSincompatible(stateLeft, stateRight) THEN Exc("logic_error")
    ELSE Ret(IRLSplusEq(stateLeft, stateRight))

\* LogisticRegressionIRLS::final.  Handed a matrix with a NaN or an
\* infinity, pinv throws (pinvThrows: its decomposition fails) or returns NaNs.
IRLSfinal(state, pinvThrows) ==
    IF AllFinite(state.X_transp_AX) THEN Ret(IRLSfinalStep(state))
    ELSE IF pinvThrows THEN Exc("runtime_error")
    ELSE Ret(IRLSfinalNaN(state))

\* LogisticRegressionIRLS::distance
IRLSdistance(stateLeft, stateRight) ==
    FAbs(FSub(stateLeft.logLikelihood, stateRight.logLikelihood))

(***************************************************************************)
(* The aggregate as the database drives it.  A fit is a data set scanned   *)
(* MaxPass times.  In each pass every worker starts from the zeroed array, *)
(* the rows are handed to the workers one at a time (transition), the      *)
(* workers' states are merged pairwise in any order (mergeStates), and the *)
(* last state is finalized (final).  From the second pass on the driver    *)
(* hands the previous pass's final state to every transition call, and     *)
(* compares the last two final states (distance).                          *)
(***************************************************************************)
Workers == 1 .. NumWorkers

\* the feature vectors and the rows (label, feature vector) of the data: of
\* one and of two features, and one with a feature that is not finite
Xs == { << One >>, << One, 2 * One >>, << PInf >> }
RowDomain == [ y : BOOLEAN, x : Xs ]

RECURSIVE SeqsUpTo(_, _)
SeqsUpTo(S, n) ==
    IF n = 0 THEN { << >> }
    ELSE LET shorter == SeqsUpTo(S, n - 1)
         IN  shorter \cup { Append(q, e) : q \in { r \in shorter : Len(r) = n - 1 }, e \in S }

Datasets == SeqsUpTo(RowDomain, MaxRows)

VARIABLES
    variant,    \* "CG" or "IRLS": the aggregate this fit runs
    data,       \* the rows of the fit
    pass,       \* the number of the current pass, from 1
    phase,      \* "scan", "final", "distance" or "error"
    acc,        \* acc[w]: worker w's transition state
    alive,      \* the workers whose state is not merged into another yet
    nxt,        \* the index in data of the next row to hand out
    took,       \* took[w]: the indices of the rows worker w's state holds
    fin,        \* the final states of the last (at most two) passes
    dist,       \* << >>, or the value distance returned
    thrown,     \* "", or the exception that ended the fit
    unchecked,  \* TRUE once a row was read through a state of another width
    last        \* the last call: its name, its arguments and what it returned

lvars == << variant, data, pass, phase, acc, alive, nxt, took, fin, dist,
            thrown, unchecked, last >>

Zero == IF variant = "CG" THEN CGZero ELSE IRLSZero
Inter(s) == IF variant = "CG" THEN CGInter(s) ELSE IRLSInter(s)
Intra(s) == IF variant = "CG" THEN CGIntra(s) ELSE IRLSIntra(s)
transition(arg, y, x, prev, checks) ==
    IF variant = "CG" THEN CGtransition(arg, y, x, prev, checks)
    ELSE IRLStransition(arg, y, x, prev, checks)
mergeStates(l, r) ==
    IF variant = "CG" THEN CGmergeStates(l, r) ELSE IRLSmergeStates(l, r)
final(state, pinvThrows) ==
    IF variant = "CG" THEN CGfinal(state) ELSE IRLSfinal(state, pinvThrows)
distance(l, r) ==
    IF variant = "CG" THEN CGdistance(l, r) ELSE IRLSdistance(l, r)

\* double y = *arg++ ? 1. : -1.
Label(b) == IF b THEN One ELSE -One

\* the previous state the driver passes to transition: null in the first pass
PrevArg == IF fin = << >> THEN << >> ELSE << fin[Len(fin)] >>

\* the record of a call: its name, the states and the row it was given, the
\* previous state passed along, and what it returned or threw
Call(op, in, row, res) ==
    [ op |-> op, in |-> in, row |-> row, prev |-> PrevArg,
      out |-> res.out, exc |-> res.exc ]

LInit ==
    /\ variant \in { "CG", "IRLS" }
    /\ data \in Datasets
    /\ pass = 1
    /\ phase = "scan"
    /\ acc = [w \in Workers |-> Zero]
    /\ alive = Workers
    /\ nxt = 1
    /\ took = [w \in Workers |-> << >>]
    /\ fin = << >>
    /\ dist = << >>
    /\ thrown = ""
    /\ unchecked = FALSE
    /\ last = Call("none", << >>, << >>, Exc(""))

\* an exception ends the aggregate call, and the fit
Throw(op, in, row, res) ==
    /\ phase' = "error"
    /\ thrown' = res.exc
    /\ last' = Call(op, in, row, res)
    /\ UNCHANGED << variant, data, pass, acc, alive, nxt, took, fin, dist, unchecked >>

(***************************************************************************)
(* transition: worker w is handed the next row.  Workers are               *)
(* interchangeable, so a row goes to a worker that has none yet only if    *)
(* every worker before it has one.                                         *)
(***************************************************************************)
Transition(w, checks) ==
    /\ phase = "scan"
    /\ nxt <= Len(data)
    /\ \A v \in Workers : v < w => took[v] # << >>
    /\ LET row == data[nxt]
           res == transition(acc[w], Label(row.y), row.x, PrevArg, checks)
       IN  IF res.exc # ""
           THEN Throw("transition", << acc[w] >>, << row >>, res)
           ELSE /\ acc' = [acc EXCEPT ![w] = res.out[1]]
                /\ nxt' = nxt + 1
                /\ took' = [took EXCEPT ![w] = Append(@, nxt)]
                /\ unchecked' = (unchecked \/ Len(row.x) # res.out[1].widthOfX)
                /\ last' = Call("transition", << acc[w] >>, << row >>, res)
                /\ UNCHANGED << variant, data, pass, phase, alive, fin, dist, thrown >>

(***************************************************************************)
(* mergeStates(stateLeft, stateRight) for the states of workers l and r;   *)
(* the result stays with l.                                                *)
(***************************************************************************)
Merge(l, r) ==
    /\ phase = "scan"
    /\ nxt > Len(data)
    /\ l \in alive /\ r \in alive /\ l # r
    /\ LET res == mergeStates(acc[l], acc[r])
       IN  IF res.exc # ""
           THEN Throw("merge", << acc[l], acc[r] >>, << >>, res)
           ELSE /\ acc' = [acc EXCEPT ![l] = res.out[1], ![r] = Zero]
                /\ alive' = alive \ { r }
                /\ took' = [took EXCEPT ![l] = @ \o took[r], ![r] = << >>]
                /\ last' = Call("merge", << acc[l], acc[r] >>, << >>, res)
                /\ UNCHANGED << variant, data, pass, phase, nxt, fin, dist,
                                thrown, unchecked >>

(***************************************************************************)
(* final on the one state that is left                                     *)
(***************************************************************************)
Final(w, pinvThrows) ==
    /\ phase = "scan"
    /\ nxt > Len(data)
    /\ alive = { w }
    /\ LET res == final(acc[w], pinvThrows)
       IN  IF res.exc # ""
           THEN Throw("final", << acc[w] >>, << >>, res)
           ELSE /\ fin' = IF Len(fin) = 2 THEN << fin[2], res.out[1] >>
                                          ELSE Append(fin, res.out[1])
                /\ phase' = "final"
                /\ last' = Call("final", << acc[w] >>, << >>, res)
                /\ UNCHANGED << variant, data, pass, acc, alive, nxt, took, dist,
                                thrown, unchecked >>

(***************************************************************************)
(* distance between the final states of the last two passes                *)
(***************************************************************************)
Distance ==
    /\ phase = "final"
    /\ Len(fin) = 2
    /\ dist' = << distance(fin[1], fin[2]) >>
    /\ phase' = "distance"
    /\ last' = [ Call("distance", fin, << >>, Exc("")) EXCEPT !.out = fin ]
    /\ UNCHANGED << variant, data, pass, acc, alive, nxt, took, fin, thrown, unchecked >>

\* the driver starts the next pass over the same rows
NextPass ==
    /\ \/ phase = "final" /\ Len(fin) < 2
       \/ phase = "distance"
    /\ pass < MaxPass
    /\ pass' = pass + 1
    /\ phase' = "scan"
    /\ acc' = [w \in Workers |-> Zero]
    /\ alive' = Workers
    /\ nxt' = 1
    /\ took' = [w \in Workers |-> << >>]
    /\ dist' = << >>
    /\ last' = Call("nextpass", << >>, << >>, Exc(""))
    /\ UNCHANGED << variant, data, fin, thrown, unchecked >>

(***************************************************************************)
(* The Student-t distribution function (src/modules/prob/student.cpp)      *)
(***************************************************************************)
\* the thresholds of studentT_cdf
NormalNu == 1000000
ApproxNu == 200

\* the degrees of freedom and the arguments t the function is called with
SeriesNus == 1 .. (ApproxNu - 1)
Nus == { -NormalNu, -1, 0 } \cup SeriesNus
         \cup { ApproxNu, ApproxNu + 1, NormalNu - 1, NormalNu, NormalNu + 1 }
Ts == { -2 * One, -One, 0, One, 2 * One, NInf, PInf, NaN }

\* an integer as a double
Num(n) == n * Scale

\* the largest r in lo .. hi with r * r <= n
RECURSIVE ISqrt(_, _, _)
ISqrt(n, lo, hi) ==
    IF lo >= hi THEN lo
    ELSE LET mid == (lo + hi + 1) \div 2
         IN  IF mid * mid <= n THEN ISqrt(n, mid, hi) ELSE ISqrt(n, lo, mid - 1)

\* std::sqrt
Sqrt(x) ==
    IF IsNaN(x) \/ x < 0 THEN NaN
    ELSE IF x = PInf THEN PInf
    ELSE ISqrt(x * Scale, 0, 46340)

M_PI == RoundDiv(355 * Scale, 113)

\* std::atan: u / (1 + 0.28 u^2) for |u| <= 1, pi/2 - atan(1/u) above, odd
AtanUnit(u) == FDiv(u, FAdd(One, FMul(RoundDiv(28 * Scale, 100), FMul(u, u))))
Atan(u) ==
    IF IsNaN(u) THEN NaN
    ELSE IF u < 0 THEN FNeg(IF u = NInf THEN RoundDiv(M_PI, 2)
                            ELSE IF -u <= One THEN AtanUnit(-u)
                            ELSE RoundDiv(M_PI, 2) - AtanUnit(FDiv(One, -u)))
    ELSE IF u = PInf THEN RoundDiv(M_PI, 2)
    ELSE IF u <= One THEN AtanUnit(u)
    ELSE RoundDiv(M_PI, 2) - AtanUnit(FDiv(One, u))

\* boost::math::erf: erf at the multiples of 1/4 in thousandths, linear in
\* between, 1 from 2.5 on, odd
ErfMilli == << 0, 276, 520, 711, 843, 923, 966, 987, 995, 999, 1000 >>
ErfAt(k) == RoundDiv(Scale * ErfMilli[k + 1], 1000)
ErfPos(x) ==
    IF x = PInf \/ 4 * x >= (Len(ErfMilli) - 1) * Scale THEN One
    ELSE LET k == (4 * x) \div Scale
             f == (4 * x) % Scale
         IN  ErfAt(k) + RoundDiv((ErfAt(k + 1) - ErfAt(k)) * f, Scale)
Erf(x) ==
    IF IsNaN(x) THEN NaN
    ELSE IF x < 0 THEN -ErfPos(FNeg(x))
    ELSE ErfPos(x)

\* static inline double normal_cdf(double t)
normal_cdf(t) ==
    FAdd(RoundDiv(One, 2), FMul(RoundDiv(One, 2), Erf(FDiv(t, Sqrt(Num(2))))))

(***************************************************************************)
(* static double studentT_cdf_approx(int64_t nu, double t).  For nu >= 200 *)
(* both g and log(1 + t*t/nu) are of the order of 1/nu, below the          *)
(* resolution 1/Scale, so the model carries both multiplied by nu:         *)
(* nu * g = ((nu - 1.5) / (nu - 1)) * (nu / (nu - 1)), and                  *)
(* nu * log(1 + t*t/nu) = t*t - (t*t)^2 / (2 nu) up to terms below the     *)
(* resolution.  Their quotient is the code's log(1 + t*t/nu) / g.          *)
(***************************************************************************)
NuTimesG(nu) ==
    FMul(FDiv(Num(nu) - RoundDiv(3 * One, 2), Num(nu - 1)),
         FDiv(Num(nu), Num(nu - 1)))

NuTimesLog1p(nu, t) ==
    LET tt == FMul(t, t)
    IN  IF IsInf(tt) THEN PInf
        ELSE FSub(tt, FDiv(FMul(tt, tt), Num(2 * nu)))

studentT_cdf_approx(nu, t) ==
    LET z == Sqrt(FDiv(NuTimesLog1p(nu, t), NuTimesG(nu)))
    IN  normal_cdf(IF FLt(t, 0) THEN FMul(z, -One) ELSE z)

(***************************************************************************)
(* double studentT_cdf(int64_t nu, double t), as the steps of one call     *)
(***************************************************************************)
VARIABLES
    tfn,        \* the function called: "student_t_cdf", "studentT_cdf" or ""
    tnu,        \* its argument nu
    tt,         \* its argument t
    tpc,        \* "idle", "called", "series" or "done"
    tregime,    \* the branch taken: "", "nan", "normal", "approx" or "series"
    tj,         \* the loop variable j
    tprod,      \* prod
    tsum,       \* sum
    titer,      \* the number of loop iterations executed
    tres,       \* << >>, or the value returned
    texc        \* "", or the exception thrown

tvars == << tfn, tnu, tt, tpc, tregime, tj, tprod, tsum, titer, tres, texc >>

TIdle ==
    /\ tfn = "" /\ tnu = 0 /\ tt = 0 /\ tpc = "idle" /\ tregime = ""
    /\ tj = 0 /\ tprod = 0 /\ tsum = 0 /\ titer = 0
    /\ tres = << >> /\ texc = ""

\* a call of the database function, or of studentT_cdf from C++
TCall(fn, nu, t) ==
    /\ tpc = "idle"
    /\ tfn' = fn /\ tnu' = nu /\ tt' = t
    /\ tpc' = "called"
    /\ tregime' = "" /\ tres' = << >> /\ texc' = "" /\ titer' = 0
    /\ UNCHANGED << tj, tprod, tsum >>

\* a domain check that lets nu = 0 through
DomainErrorNegative(nu) == nu < 0

\* a case selection with the normal distribution from above 1000000 only
RegimeAbove(nu) ==
    IF nu <= 0 THEN "nan"
    ELSE IF nu > NormalNu THEN "normal"
    ELSE IF nu >= ApproxNu THEN "approx"
    ELSE "series"

\* student_t_cdf, lines 222-225: the domain check of the database function
DomainError(nu) == nu <= 0

\* studentT_cdf, lines 130-135: the case the function handles nu in
Regime(nu) ==
    IF nu <= 0 THEN "nan"
    ELSE IF nu >= NormalNu THEN "normal"
    ELSE IF nu >= ApproxNu THEN "approx"
    ELSE "series"

TDomainError ==
    /\ tpc = "called"
    /\ tfn = "student_t_cdf"
    /\ DomainError(tnu)
    /\ texc' = "domain_error"
    /\ tpc' = "done"
    /\ UNCHANGED << tfn, tnu, tt, tregime, tj, tprod, tsum, titer, tres >>

\* studentT_cdf, lines 122-135: the extreme cases
TEnter ==
    /\ tpc = "called"
    /\ ~(tfn = "student_t_cdf" /\ DomainError(tnu))
    /\ tregime' = Regime(tnu)
    /\ IF Regime(tnu) = "nan"
       THEN /\ tres' = << NaN >> /\ tpc' = "done"
            /\ UNCHANGED << tj, tprod, tsum >>
       ELSE IF Regime(tnu) = "normal"
       THEN /\ tres' = << normal_cdf(tt) >> /\ tpc' = "done"
            /\ UNCHANGED << tj, tprod, tsum >>
       ELSE IF Regime(tnu) = "approx"
       THEN /\ tres' = << studentT_cdf_approx(tnu, tt) >> /\ tpc' = "done"
            /\ UNCHANGED << tj, tprod, tsum >>
       ELSE /\ tres' = << >> /\ tpc' = "series"
            /\ tj' = 2 /\ tprod' = One /\ tsum' = One
    /\ UNCHANGED << tfn, tnu, tt, titer, texc >>

\* t_by_sqrt_nu without std::fabs
TBySqrtNuSigned(nu, t) == FDiv(t, Sqrt(Num(nu)))

\* z = 1. + t * t / nu and t_by_sqrt_nu = std::fabs(t) / std::sqrt(nu)
SeriesZ(nu, t) == FAdd(One, FDiv(FMul(t, t), Num(nu)))
TBySqrtNu(nu, t) == FDiv(FAbs(t), Sqrt(Num(nu)))

\* a loop that runs up to j = nu - 1
LoopLimitOneMore(nu) == nu - 1

\* the last value of j for which the loop body runs
LoopLimit(nu) == IF nu % 2 = 1 THEN nu - 3 ELSE nu - 2

\* the loop body's new prod: prod * j / ((j + 1) * z) for odd nu, and
\* prod * (j - 1) / (j * z) for even nu
NextProd(nu, t, j, prod) ==
    LET z == SeriesZ(nu, t)
    IN  IF nu % 2 = 1
        THEN FDiv(FMul(prod, Num(j)), FMul(Num(j + 1), z))
        ELSE FDiv(FMul(prod, Num(j - 1)), FMul(Num(j), z))

\* one iteration of the loop for odd nu > 1 or for even nu
TLoop ==
    /\ tpc = "series"
    /\ tnu # 1
    /\ tj <= LoopLimit(tnu)
    /\ LET prod == NextProd(tnu, tt, tj, tprod)
       IN  /\ tprod' = prod
           /\ tsum' = FAdd(tsum, prod)
    /\ tj' = tj + 2
    /\ titer' = titer + 1
    /\ UNCHANGED << tfn, tnu, tt, tpc, tregime, tres, texc >>

\* A(t|nu) from the sum
SeriesA(nu, t, sum) ==
    LET z == SeriesZ(nu, t)
        t_by_sqrt_nu == TBySqrtNu(nu, t)
    IN  IF nu = 1
        THEN FMul(FDiv(Num(2), M_PI), Atan(t_by_sqrt_nu))
        ELSE IF nu % 2 = 1
        THEN FMul(FDiv(Num(2), M_PI),
                  FAdd(Atan(t_by_sqrt_nu), FMul(FDiv(t_by_sqrt_nu, z), sum)))
        ELSE FMul(FDiv(t_by_sqrt_nu, Sqrt(z)), sum)

\* lines 165-170
Clamp(A) == IF FLt(One, A) THEN One ELSE IF FLt(A, 0) THEN 0 ELSE A

\* lines 172-176
Symmetric(t, A) ==
    IF FLt(t, 0) THEN FMul(RoundDiv(One, 2), FSub(One, A))
    ELSE FSub(One, FMul(RoundDiv(One, 2), FSub(One, A)))

\* the end of the series: A, its clamping, and the value returned
TFinish ==
    /\ tpc = "series"
    /\ tnu = 1 \/ tj > LoopLimit(tnu)
    /\ tres' = << Symmetric(tt, Clamp(SeriesA(tnu, tt, tsum))) >>
    /\ tpc' = "done"
    /\ UNCHANGED << tfn, tnu, tt, tregime, tj, tprod, tsum, titer, texc >>

(***************************************************************************)
(* The storage of a state: one array of doubles (mStorage) and the fields  *)
(* bound to places in it.  State(AnyValue) binds the fields of an array it *)
(* is given, initialize allocates an array of arraySize(inWidthOfX)        *)
(* elements and binds the fields again.  Every index is an int expression  *)
(* over the uint16_t width.                                                *)
(***************************************************************************)
\* the widths a uint16_t holds
Widths == 0 .. UINT16_MAX

\* a field: its name, the exact value of the expression that indexes its
\* first element, and the number of its elements
Field(name, off, len) == [ name |-> name, off |-> off, len |-> len ]

\* LogisticRegressionCG::State: the member initializers, in their order
CGfields(w) ==
    << Field("iteration", WNum(0), WNum(1)),
       Field("widthOfX", WNum(1), WNum(1)),
       Field("coef", WNum(2), WNum(w)),
       Field("dir", WNum(2 + w), WNum(w)),
       Field("grad", WNum(2 + 2 * w), WNum(w)),
       Field("beta", WNum(2 + 3 * w), WNum(1)),
       Field("numRows", WNum(3 + 3 * w), WNum(1)),
       Field("gradNew", WNum(4 + 3 * w), WNum(w)),
       Field("dTHd", WNum(4 + 4 * w), WNum(1)),
       Field("logLikelihood", WNum(5 + 4 * w), WNum(1)) >>

\* LogisticRegressionIRLS::State: the member initializers, in their order
IRLSfields(w) ==
    << Field("widthOfX", WNum(0), WNum(1)),
       Field("coef", WNum(1), WNum(w)),
       Field("numRows", WNum(1 + w), WNum(1)),
       Field("X_transp_Az", WNum(2 + w), WNum(w)),
       Field("X_transp_AX", WNum(2 + 2 * w), WMul(w, w)),
       Field("logLikelihood", WAdd(WAdd(WNum(2), WMul(w, w)), WNum(2 * w)),
             WNum(1)) >>

Fields(v, w) == IF v = "CG" THEN CGfields(w) ELSE IRLSfields(w)

\* arraySize as an exact number, and the length the database is assumed to
\* give the zeroed array of the first call
ArraySizeExact(v, w) ==
    IF v = "CG" THEN WNum(CGarraySize(w)) ELSE IRLSarraySizeExact(w)
MinLength(v) == IF v = "CG" THEN 6 ELSE 3

\* some int expression of initialize(w) overflows
Overflows(v, w) ==
    \/ IntOverflow(ArraySizeExact(v, w))
    \/ \E i \in 1 .. Len(Fields(v, w)) : IntOverflow(Fields(v, w)[i].off)

\* the fields as a build that wraps binds them: the 32 bits of every index
Bound(fields) == [ i \in 1 .. Len(fields) |-> [ fields[i] EXCEPT !.off = IntWrap(@) ] ]

VARIABLES
    bvariant,   \* "CG" or "IRLS": the class of the state
    bpc,        \* "idle", "initialized", "constructed" or "trapped"
    bwidth,     \* the value of widthOfX
    bsize,      \* mStorage.size(), of 32 bits
    bfields     \* the fields as they are bound

bvars == << bvariant, bpc, bwidth, bsize, bfields >>

BIdle ==
    /\ bvariant = "CG" /\ bpc = "idle" /\ bwidth = 0
    /\ bsize = WNum(0) /\ bfields = << >>

\* initialize(inAllocator, inWidthOfX) on a state of class v
BInitialize(v, inWidthOfX, overflow) ==
    /\ bpc = "idle"
    /\ bvariant' = v
    /\ bwidth' = inWidthOfX
    /\ IF Overflows(v, inWidthOfX) /\ overflow = "trap"
       THEN bpc' = "trapped" /\ UNCHANGED << bsize, bfields >>
       ELSE /\ bpc' = "initialized"
            /\ bsize' = IntWrap(ArraySizeExact(v, inWidthOfX))
            /\ bfields' = Bound(Fields(v, inWidthOfX))

\* State(AnyValue inArg) on the array the database hands to the first call:
\* zeros, of the assumed length, so that widthOfX reads as 0
BConstructZero(v) ==
    /\ bpc = "idle"
    /\ bvariant' = v
    /\ bwidth' = 0
    /\ bsize' = WNum(MinLength(v))
    /\ bfields' = Bound(Fields(v, 0))
    /\ bpc' = "constructed"

\* State(AnyValue inArg) on the array a transition returned: the array is
\* kept, widthOfX is read from it and the fields are bound again
BConstruct(overflow) ==
    /\ bpc = "initialized"
    /\ IF Overflows(bvariant, bwidth) /\ overflow = "trap"
       THEN bpc' = "trapped" /\ UNCHANGED << bsize, bfields >>
       ELSE /\ bpc' = "constructed"
            /\ bfields' = Bound(Fields(bvariant, bwidth))
            /\ UNCHANGED bsize
    /\ UNCHANGED << bvariant, bwidth >>

\* the logistic-regression variables while the Student-t function runs
LIdle ==
    /\ variant = "CG" /\ data = << >> /\ pass = 1 /\ phase = "idle"
    /\ acc = [w \in Workers |-> CGZero] /\ alive = Workers /\ nxt = 1
    /\ took = [w \in Workers |-> << >>] /\ fin = << >> /\ dist = << >>
    /\ thrown = "" /\ unchecked = FALSE
    /\ last = Call("none", << >>, << >>, Exc(""))

vars == << lvars, tvars, bvars >>

\* a logistic-regression fit: the calls of one aggregate over one data set
Init == LInit /\ TIdle /\ BIdle

DoTransition == (\E w \in Workers, checks \in BOOLEAN : Transition(w, checks)) /\ UNCHANGED << tvars, bvars >>
DoMerge == (\E l, r \in Workers : Merge(l, r)) /\ UNCHANGED << tvars, bvars >>
DoFinal == (\E w \in Workers, pinvThrows \in BOOLEAN : Final(w, pinvThrows)) /\ UNCHANGED << tvars, bvars >>
DoDistance == Distance /\ UNCHANGED << tvars, bvars >>
DoNextPass == NextPass /\ UNCHANGED << tvars, bvars >>

Next == DoTransition \/ DoMerge \/ DoFinal \/ DoDistance \/ DoNextPass

Spec == Init /\ [][Next]_vars

\* calls of the Student-t distribution function
InitT == LIdle /\ TIdle /\ BIdle

DoCall ==
    /\ \E fn \in { "student_t_cdf", "studentT_cdf" }, nu \in Nus, t \in Ts :
          TCall(fn, nu, t)
    /\ UNCHANGED << lvars, bvars >>
DoDomainError == TDomainError /\ UNCHANGED << lvars, bvars >>
DoEnter == TEnter /\ UNCHANGED << lvars, bvars >>
DoLoop == TLoop /\ UNCHANGED << lvars, bvars >>
DoFinish == TFinish /\ UNCHANGED << lvars, bvars >>

NextT == DoCall \/ DoDomainError \/ DoEnter \/ DoLoop \/ DoFinish

SpecT == InitT /\ [][NextT]_vars

\* mergeStates called on any two states, as the database may call it: each
\* worker holds the zeroed array or a state of n rows and width w, of
\* iteration n (CG), with coefficients c
Operand(v, n, w, c) ==
    IF v = "CG"
    THEN [ iteration |-> n, widthOfX |-> w, coef |-> [i \in 1 .. w |-> c],
           dir |-> [i \in 1 .. w |-> One], grad |-> [i \in 1 .. w |-> -One],
           beta |-> c,
           numRows |-> n, gradNew |-> [i \in 1 .. w |-> One + c],
           dTHd |-> -(2 * One + c), logLikelihood |-> -(3 * One + c) ]
    ELSE [ widthOfX |-> w, coef |-> [i \in 1 .. w |-> c],
           numRows |-> n, X_transp_Az |-> [i \in 1 .. w |-> One + c],
           X_transp_AX |-> [i \in 1 .. w * w |-> 2 * One + c],
           logLikelihood |-> -(3 * One + c) ]

MergeOperands(v) ==
    { IF v = "CG" THEN CGZero ELSE IRLSZero }
        \cup { Operand(v, n, w, c) : n \in { 1, 2 }, w \in { 1, 2 }, c \in { 0, One } }

InitM ==
    /\ variant \in { "CG", "IRLS" }
    /\ data = << >> /\ pass = 1 /\ phase = "scan"
    /\ acc \in [ Workers -> MergeOperands(variant) ]
    /\ alive = Workers /\ nxt = 1
    /\ took = [w \in Workers |-> << >>] /\ fin = << >> /\ dist = << >>
    /\ thrown = "" /\ unchecked = FALSE
    /\ last = Call("none", << >>, << >>, Exc(""))
    /\ TIdle /\ BIdle

NextM == DoMerge

SpecM == InitM /\ [][NextM]_vars

\* the storage of a state: its allocation and the binding of its fields
InitB == LIdle /\ TIdle /\ BIdle

DoInitialize ==
    /\ bpc = "idle"
    /\ \E v \in { "CG", "IRLS" }, w \in Widths, overflow \in OverflowOutcomes :
          BInitialize(v, w, overflow)
    /\ UNCHANGED << lvars, tvars >>
DoConstructZero ==
    (\E v \in { "CG", "IRLS" } : BConstructZero(v)) /\ UNCHANGED << lvars, tvars >>
DoConstruct ==
    (\E overflow \in OverflowOutcomes : BConstruct(overflow)) /\ UNCHANGED << lvars, tvars >>

NextB == DoInitialize \/ DoConstructZero \/ DoConstruct

SpecB == InitB /\ [][NextB]_vars

(***************************************************************************)
(* Properties of the logistic-regression aggregates (specification Spec)   *)
(***************************************************************************)
Size(s) == IF variant = "CG" THEN CGsize(s) ELSE IRLSsize(s)
Range(q) == { q[i] : i \in 1 .. Len(q) }
Max(S) == CHOOSE m \in S : \A n \in S : n <= m

\* the inter-iteration components initialize gives a state of width n
FreshInter(n) ==
    IF variant = "CG" THEN << 0, n, Zeros(n), Zeros(n), Zeros(n), 0 >>
    ELSE << n, Zeros(n) >>

\* the state one worker reaches that is handed the rows with the indices in S,
\* in the order of the data, with the seed of the current pass
RECURSIVE SingleWorker(_)
SingleWorker(S) ==
    IF S = {} THEN Zero
    ELSE LET m == Max(S)
         IN  transition(SingleWorker(S \ { m }), Label(data[m].y), data[m].x,
                        PrevArg, TRUE).out[1]

\* C1: mergeStates (CG and IRLS) with an operand whose numRows is 0 returns
\* the other operand, equal in every field, whichever side the empty operand
\* is on, and throws nothing: no width or size check is applied to the pair.
C1_MergeIdentity ==
    last.op = "merge" =>
        /\ last.in[1].numRows = 0 => last.exc = "" /\ last.out = << last.in[2] >>
        /\ last.in[2].numRows = 0 => last.exc = "" /\ last.out = << last.in[1] >>

\* an empty left state merged with a state of rows, of another width and size
C1_Witness ==
    /\ last.op = "merge"
    /\ last.in[1].numRows = 0
    /\ last.in[2].numRows > 0
    /\ last.in[1].widthOfX # last.in[2].widthOfX
    /\ Size(last.in[1]) # Size(last.in[2])
    /\ last.out = << last.in[2] >>

\* C2: mergeStates is associative and commutative.  For the states A, B, C of
\* any three workers of one pass (empty ones included) whose non-empty states
\* have one width: merge(merge(A,B),C), merge(A,merge(B,C)) and
\* merge(merge(B,A),C) are all returned, and are equal in every field.  Sums
\* are exact; a NaN field is compared as a value.
C2_MergeAssocComm ==
    phase = "scan" =>
        \A a, b, c \in Workers :
            LET A == acc[a]
                B == acc[b]
                C == acc[c]
                M(l, r) == mergeStates(l, r).out[1]
                ok(l, r) == mergeStates(l, r).exc = ""
            IN  ( /\ a # b /\ b # c /\ a # c
                  /\ \A s, t \in { A, B, C } :
                        s.numRows > 0 /\ t.numRows > 0 => s.widthOfX = t.widthOfX )
                => /\ ok(A, B) /\ ok(B, C) /\ ok(B, A)
                   /\ ok(M(A, B), C) /\ ok(A, M(B, C)) /\ ok(M(B, A), C)
                   /\ M(M(A, B), C) = M(A, M(B, C))
                   /\ M(M(A, B), C) = M(M(B, A), C)

\* three workers that hold a row each, in a pass with a seed, with
\* log-likelihoods other than zero
C2_Witness ==
    /\ phase = "scan"
    /\ pass > 1
    /\ \A w \in { 1, 2, 3 } :
          /\ acc[w].numRows = 1
          /\ acc[w].widthOfX = acc[1].widthOfX
          /\ IsFinite(acc[w].logLikelihood)
          /\ acc[w].logLikelihood # 0

C4_InterNeverTouched ==
    (last.op \in { "transition", "merge" } /\ last.exc = "") =>
        Inter(last.out[1]) = Inter(last.in[1])

\* C4, amended: transition leaves the inter-iteration components of a state
\* with numRows > 0 as they are, and sets those of a state with numRows = 0:
\* to the components of the previous state if one is passed, else to the
\* width of the row, iteration 0 and zero vectors.  mergeStates returns the
\* components of its left operand, or of its right operand if the left one is
\* empty.  So in a pass every non-empty state has the components of the
\* pass's seed, or the initial ones.
C4_InterSetByFirstRow ==
    /\ (last.op = "transition" /\ last.exc = "") =>
          Inter(last.out[1]) =
              IF last.in[1].numRows > 0 THEN Inter(last.in[1])
              ELSE IF last.prev # << >> THEN Inter(last.prev[1])
              ELSE FreshInter(Len(last.row[1].x))
    /\ (last.op = "merge" /\ last.exc = "") =>
          Inter(last.out[1]) =
              Inter(IF last.in[1].numRows = 0 THEN last.in[2] ELSE last.in[1])
    /\ phase = "scan" =>
          \A w \in Workers :
              acc[w].numRows > 0 =>
                  Inter(acc[w]) = IF PrevArg # << >> THEN Inter(PrevArg[1])
                                  ELSE FreshInter(acc[w].widthOfX)

\* the first row of a later pass: the zeroed state comes back with the
\* coefficients and the iteration count of the previous state
C4_Witness ==
    /\ last.op = "transition"
    /\ last.exc = ""
    /\ last.in[1].numRows = 0
    /\ last.prev # << >>
    /\ Inter(last.out[1]) # Inter(last.in[1])
    /\ Inter(last.out[1]) = Inter(last.prev[1])
    /\ \E i \in 1 .. Len(last.out[1].coef) : last.out[1].coef[i] # 0

\* C5 as stated: the state final returns has numRows = 0, zero accumulators
\* and logLikelihood = 0.
C5_FinalResets ==
    (last.op = "final" /\ last.exc = "") =>
        /\ last.out[1].numRows = 0
        /\ last.out[1].logLikelihood = 0
        /\ Intra(last.out[1]) = Intra(IF variant = "CG" THEN CGreset(last.out[1])
                                      ELSE IRLSreset(last.out[1]))

\* C5, amended: final returns the intra-iteration components it was given
\* (numRows and logLikelihood of the pass stay in the state, where distance
\* reads them).  They are reset by the first transition of the next pass,
\* which copies the previous state and zeroes them before it adds its row:
\* that call returns numRows = 1 and the log-likelihood of its row alone.
C5_ResetByNextPass ==
    /\ (last.op = "final" /\ last.exc = "") =>
          Intra(last.out[1]) = Intra(last.in[1])
    /\ ( /\ last.op = "transition" /\ last.exc = ""
         /\ last.in[1].numRows = 0 /\ last.prev # << >>
         /\ Len(last.row[1].x) = last.prev[1].widthOfX ) =>
          LET x == last.row[1].x
              y == Label(last.row[1].y)
              out == last.out[1]
          IN  /\ out.numRows = 1
              /\ out.logLikelihood =
                     FSub(0, LogLikTerm(y, Dot(x, last.prev[1].coef)))
              /\ variant = "CG" =>
                    IF out.iteration % 2 = 0 THEN out.dTHd = 0
                    ELSE out.gradNew = Zeros(out.widthOfX)

\* final on a state of rows with a log-likelihood other than zero
C5_Witness ==
    /\ last.op = "final"
    /\ last.exc = ""
    /\ last.in[1].numRows > 1
    /\ last.out[1].numRows = last.in[1].numRows
    /\ IsFinite(last.out[1].logLikelihood)
    /\ last.out[1].logLikelihood # 0

\* C6: mergeStates on two states that both have numRows > 0 and differ in
\* widthOfX or in size throws std::logic_error: nothing is returned, the fit
\* ends, and both operands are as they were before the call.
C6_MergeMismatchThrows ==
    ( /\ last.op = "merge"
      /\ last.in[1].numRows > 0 /\ last.in[2].numRows > 0
      /\ \/ last.in[1].widthOfX # last.in[2].widthOfX
         \/ Size(last.in[1]) # Size(last.in[2]) ) =>
        /\ last.exc = "logic_error"
        /\ last.out = << >>
        /\ phase = "error"
        /\ thrown = "logic_error"
        /\ \E l, r \in alive : l # r /\ acc[l] = last.in[1] /\ acc[r] = last.in[2]

\* a state of one row of width 1 merged with a state of one row of width 2
C6_Witness ==
    /\ last.op = "merge"
    /\ last.exc = "logic_error"
    /\ last.in[1].numRows > 0
    /\ last.in[2].numRows > 0
    /\ last.in[1].widthOfX # last.in[2].widthOfX

\* the width transition works with: the state's, the previous state's if the
\* state is empty, and else the row's
WidthInForce(c) ==
    IF c.in[1].numRows > 0 THEN c.in[1].widthOfX
    ELSE IF c.prev # << >> THEN c.prev[1].widthOfX
    ELSE Len(c.row[1].x)

\* C7 as stated: widthOfX is fixed by the first row.  Every non-empty state
\* of a fit, and every final state, has the width of the first row of the
\* data, and a transition call whose row differs in width from the state, or
\* from the previous state it is seeded with, throws and returns nothing.
C7_WidthFixed ==
    /\ \A w \in Workers :
          acc[w].numRows > 0 => acc[w].widthOfX = Len(data[1].x)
    /\ \A i \in 1 .. Len(fin) :
          data # << >> => fin[i].widthOfX = Len(data[1].x)
    /\ last.op = "transition" =>
          (Len(last.row[1].x) # WidthInForce(last) =>
              last.exc # "" /\ last.out = << >>)

C9_DomainError ==
    tpc = "done" =>
        /\ (tfn = "student_t_cdf" /\ tnu <= 0) =>
              texc = "domain_error" /\ tres = << >>
        /\ (tfn = "studentT_cdf" /\ tnu <= 0) =>
              texc = "" /\ tres = << NaN >>
        /\ tnu >= 1 =>
              texc = "" /\ Len(tres) = 1 /\ (IsFinite(tt) => ~IsNaN(tres[1]))

\* student_t_cdf called with nu = 0
C9_Witness ==
    /\ tpc = "done"
    /\ tfn = "student_t_cdf"
    /\ tnu = 0
    /\ texc = "domain_error"
    /\ tres = << >>

RECURSIVE SeriesSum(_, _, _, _, _)
SeriesSum(nu, t, j, prod, sum) ==
    IF nu = 1 \/ j > LoopLimit(nu) THEN sum
    ELSE LET p == NextProd(nu, t, j, prod)
         IN  SeriesSum(nu, t, j + 2, p, FAdd(sum, p))

\* A(t|nu) as a call of studentT_cdf in the series case computes it
SeriesAOf(nu, t) == SeriesA(nu, t, SeriesSum(nu, t, 2, One, One))

\* the value studentT_cdf(nu, t) returns for nu >= 1
StudentTOf(nu, t) ==
    IF Regime(nu) = "normal" THEN normal_cdf(t)
    ELSE IF Regime(nu) = "approx" THEN studentT_cdf_approx(nu, t)
    ELSE Symmetric(t, Clamp(SeriesAOf(nu, t)))

C12_SeriesInUnitInterval ==
    (tpc = "done" /\ tregime = "series") =>
        LET A == Clamp(SeriesA(tnu, tt, tsum))
            half == RoundDiv(One, 2)
        IN  /\ FLe(0, A) /\ FLe(A, One)
            /\ FLe(0, tres[1]) /\ FLe(tres[1], One)
            /\ FLt(tt, 0) => FLe(tres[1], half)
            /\ ~FLt(tt, 0) => FLe(half, tres[1])

\* C20: the series loop ends for every nu in 1 .. 199.  Every iteration
\* raises j by 2 from 2, so j = 2 + 2 * (iterations run), and the loop has
\* ended exactly when the count below is reached: 0 iterations for nu in
\* {1, 2, 3}, (nu - 3) / 2 for odd nu > 1, (nu - 2) / 2 for even nu; at most
\* 98, and linear in nu.  For nu >= 200 (and nu <= 0) no iteration runs.
C20_LoopCount ==
    LET count == IF tnu \in { 1, 2, 3 } THEN 0
                 ELSE IF tnu % 2 = 1 THEN (tnu - 3) \div 2
                 ELSE (tnu - 2) \div 2
    IN  /\ (tpc \in { "series", "done" } /\ tregime = "series") =>
              /\ tnu \in 1 .. 199
              /\ tj = 2 + 2 * titer
              /\ titer <= count
              /\ count <= 98
              /\ 2 * count <= tnu
              /\ tpc = "done" => titer = count
              /\ (tpc = "series" /\ titer = count) =>
                    (tnu = 1 \/ tj > LoopLimit(tnu))
              /\ (tpc = "series" /\ titer < count) =>
                    (tnu # 1 /\ tj <= LoopLimit(tnu))
        /\ (tpc = "done" /\ tregime # "series") => titer = 0

\* the call with the most iterations: nu = 199 ends after 98
C20_Witness ==
    /\ tpc = "done"
    /\ tregime = "series"
    /\ tnu = 199
    /\ titer = 98
    /\ tres # << >>

(***************************************************************************)
(* Properties of the steps of the two aggregates (specification Spec)      *)
(***************************************************************************)

\* the state a transition call works on once the first row of a pass has
\* set it up: the state given if it has rows, else the previous state with
\* its intra-iteration components zeroed, else a zero state of the row's width
Base(c) ==
    IF c.in[1].numRows > 0 THEN c.in[1]
    ELSE IF c.prev # << >>
    THEN (IF variant = "CG" THEN CGreset(c.prev[1]) ELSE IRLSreset(c.prev[1]))
    ELSE (IF variant = "CG" THEN CGinitialize(CGZero, Len(c.row[1].x))
          ELSE IRLSinitialize(IRLSZero, Len(c.row[1].x)))

\* C13: a CG transition raises numRows by exactly 1 and subtracts the row's
\* term log(1 + exp(-y x.coef)) from logLikelihood; in an even iteration it
\* adds sigma(-y x.coef) y x to gradNew and leaves dTHd as it is, in an odd
\* iteration it subtracts sigma(x.coef) sigma(-x.coef) (x.dir)^2 from dTHd and
\* leaves gradNew as it is.  So every state of a pass has dTHd = 0 in an even
\* iteration and gradNew = 0 in an odd one, up to the call of final.
C13_TransitionFrame ==
    variant = "CG" =>
        /\ ( /\ last.op = "transition" /\ last.exc = ""
             /\ Len(last.row[1].x) = last.out[1].widthOfX ) =>
              LET b == Base(last)
                  out == last.out[1]
                  x == last.row[1].x
                  y == Label(last.row[1].y)
                  xc == Dot(x, b.coef)
                  xd == Dot(x, b.dir)
              IN  /\ out.numRows = b.numRows + 1
                  /\ out.logLikelihood =
                         FSub(b.logLikelihood,
                              Log(FAdd(One, Exp(FMul(FNeg(y), xc)))))
                  /\ b.iteration % 2 = 0 =>
                        /\ out.dTHd = b.dTHd
                        /\ out.gradNew =
                               VAdd(b.gradNew,
                                    VScale(FMul(sigma(FMul(FNeg(y), xc)), y), x))
                  /\ b.iteration % 2 = 1 =>
                        /\ out.gradNew = b.gradNew
                        /\ out.dTHd =
                               FSub(b.dTHd,
                                    FMul(FMul(FMul(sigma(xc), sigma(FNeg(xc))),
                                              xd), xd))
        /\ phase = "scan" =>
              \A w \in Workers :
                  acc[w].numRows > 0 =>
                      IF acc[w].iteration % 2 = 0 THEN acc[w].dTHd = 0
                      ELSE acc[w].gradNew = Zeros(acc[w].widthOfX)
        /\ (last.op = "final" /\ last.in[1].numRows > 0) =>
              IF last.in[1].iteration % 2 = 0 THEN last.in[1].dTHd = 0
              ELSE last.in[1].gradNew = Zeros(last.in[1].widthOfX)

\* a second row in an odd iteration: dTHd goes down, gradNew stays zero
C13_Witness ==
    /\ variant = "CG"
    /\ last.op = "transition"
    /\ last.exc = ""
    /\ last.in[1].numRows = 1
    /\ last.in[1].iteration % 2 = 1
    /\ last.out[1].numRows = 2
    /\ IsFinite(last.out[1].dTHd)
    /\ last.out[1].dTHd < last.in[1].dTHd
    /\ last.out[1].gradNew = Zeros(last.out[1].widthOfX)
    /\ last.out[1].logLikelihood < last.in[1].logLikelihood

\* C14: CG final at iteration 0 sets dir and grad to gradNew and leaves coef
\* and beta as they are.
C14_FinalFirst ==
    (variant = "CG" /\ last.op = "final" /\ last.in[1].iteration = 0) =>
        LET in == last.in[1]
            out == last.out[1]
        IN  /\ last.exc = ""
            /\ out.dir = in.gradNew
            /\ out.grad = in.gradNew
            /\ out.coef = in.coef
            /\ out.beta = in.beta
            /\ out.widthOfX = in.widthOfX

\* the first final of a fit whose rows leave a gradient other than zero
C14_Witness ==
    /\ variant = "CG"
    /\ last.op = "final"
    /\ last.in[1].iteration = 0
    /\ last.in[1].numRows > 0
    /\ \E i \in 1 .. last.in[1].widthOfX : last.in[1].gradNew[i] # 0
    /\ last.out[1].dir = last.in[1].gradNew
    /\ last.out[1].grad = last.in[1].gradNew

\* C15: CG final at an even iteration > 0 takes delta = gradNew - grad and
\* beta = (gradNew . delta) / (dir . delta) from the grad and dir the state
\* came with, then sets dir = gradNew - beta * (old dir) and grad = gradNew,
\* and leaves coef as it is.
C15_FinalEven ==
    ( /\ variant = "CG" /\ last.op = "final"
      /\ last.in[1].iteration > 0 /\ last.in[1].iteration % 2 = 0 ) =>
        LET in == last.in[1]
            out == last.out[1]
            delta == VSub(in.gradNew, in.grad)
            betaScale == FDiv(Dot(in.gradNew, delta), Dot(in.dir, delta))
        IN  /\ last.exc = ""
            /\ out.beta = betaScale
            /\ out.dir = VSub(in.gradNew, VScale(betaScale, in.dir))
            /\ out.grad = in.gradNew
            /\ out.coef = in.coef
            /\ out.widthOfX = in.widthOfX

\* the final of iteration 2 with a finite beta and a new gradient
C15_Witness ==
    /\ variant = "CG"
    /\ last.op = "final"
    /\ last.in[1].iteration = 2
    /\ last.in[1].gradNew # last.in[1].grad
    /\ IsFinite(last.out[1].beta)
    /\ \A i \in 1 .. last.in[1].widthOfX : IsFinite(last.out[1].dir[i])
    /\ last.out[1].grad = last.in[1].gradNew

\* C16: CG final at an odd iteration subtracts (grad . dir / dTHd) * dir from
\* coef, with the dTHd of this pass and the grad and dir the state came with,
\* and leaves dir, grad and beta as they are.
C16_FinalOdd ==
    (variant = "CG" /\ last.op = "final" /\ last.in[1].iteration % 2 = 1) =>
        LET in == last.in[1]
            out == last.out[1]
            alpha == FDiv(Dot(in.grad, in.dir), in.dTHd)
        IN  /\ last.exc = ""
            /\ out.coef = VSub(in.coef, VScale(alpha, in.dir))
            /\ out.dir = in.dir
            /\ out.grad = in.grad
            /\ out.beta = in.beta
            /\ out.widthOfX = in.widthOfX

\* the final of iteration 1 with a curvature other than zero: coef moves
C16_Witness ==
    /\ variant = "CG"
    /\ last.op = "final"
    /\ last.in[1].iteration = 1
    /\ IsFinite(last.in[1].dTHd)
    /\ last.in[1].dTHd # 0
    /\ last.out[1].coef # last.in[1].coef
    /\ \A i \in 1 .. last.in[1].widthOfX : IsFinite(last.out[1].coef[i])

\* C17: in a CG fit over at least one row, run as passes each seeded with
\* the final state of the one before, final raises iteration by exactly 1 in
\* each of its three branches: the states of pass k carry iteration k - 1,
\* and the final state of pass k carries iteration k, however the rows were
\* dealt to the workers and in whatever order their states were merged.
C17_IterationCounts ==
    (variant = "CG" /\ data # << >>) =>
        /\ (last.op = "final") =>
              /\ last.exc = ""
              /\ last.out[1].iteration = last.in[1].iteration + 1
              /\ last.in[1].iteration = pass - 1
        /\ phase = "scan" =>
              \A w \in Workers : acc[w].numRows > 0 => acc[w].iteration = pass - 1
        /\ phase \in { "final", "distance" } =>
              /\ fin # << >>
              /\ fin[Len(fin)].iteration = pass
              /\ Len(fin) = 2 => fin[1].iteration = pass - 1

\* the third final of a fit, of a state merged against the order of the data
C17_Witness ==
    /\ variant = "CG"
    /\ last.op = "final"
    /\ pass = 3
    /\ last.in[1].numRows = 3
    /\ last.out[1].iteration = 3
    /\ \E w \in Workers : alive = { w } /\ took[w] = << 2, 3, 1 >>

EvenOddPair ==
    /\ variant = "CG"
    /\ Len(data) > 0
    /\ Len(fin) = 2
    /\ fin[1].iteration % 2 = 1
    /\ fin[2].iteration = fin[1].iteration + 1

\* what C22 says of the coefficients and of the log-likelihood: final at an
\* even iteration returns the coefficients it was given, and the pass at the
\* odd iteration that follows ran with the coefficients and summed up the
\* log-likelihood of the pass before it
SameCoefSameLogLikelihood ==
    /\ (variant = "CG" /\ last.op = "final" /\ last.exc = ""
          /\ last.in[1].iteration % 2 = 0) =>
          last.out[1].coef = last.in[1].coef
    /\ (EvenOddPair /\ last.op = "final") =>
          /\ last.prev = << fin[1] >>
          /\ last.in[1].coef = fin[1].coef
          /\ last.in[1].logLikelihood = fin[1].logLikelihood
          /\ fin[2].logLikelihood = fin[1].logLikelihood

FieldOrder(v) ==
    IF v = "CG"
    THEN << "iteration", "widthOfX", "coef", "dir", "grad", "beta",
            "numRows", "gradNew", "dTHd", "logLikelihood" >>
    ELSE << "widthOfX", "coef", "numRows", "X_transp_Az", "X_transp_AX",
            "logLikelihood" >>

\* the fields lie one after the other from index 0 and end where an array of
\* size elements ends: they are pairwise disjoint and cover it exactly
Contiguous(fields, size) ==
    /\ fields[1].off = WNum(0)
    /\ \A i \in 1 .. Len(fields) : ~IndexNegative(fields[i].off)
    /\ \A i \in 1 .. Len(fields) - 1 :
          fields[i + 1].off = WAdd(fields[i].off, fields[i].len)
    /\ WAdd(fields[Len(fields)].off, fields[Len(fields)].len) = size

\* the places of the fields are bound
FieldsBound == bpc \in { "initialized", "constructed" }

\* C21 as stated: for every width w the fields of the CG state occupy
\* pairwise disjoint ranges of indexes, in the documented order, that cover
\* exactly an array of 6 + 4w elements, and those of the IRLS state one of
\* 3 + w*w + 2w elements; for w = 0 every field starts inside the assumed
\* least length of the array, 6 (CG) and 3 (IRLS).
C21_BufferLayout ==
    FieldsBound =>
        /\ [ i \in 1 .. Len(bfields) |-> bfields[i].name ] = FieldOrder(bvariant)
        /\ Contiguous(bfields, ArraySizeExact(bvariant, bwidth))
        /\ bwidth = 0 =>
              \A i \in 1 .. Len(bfields) :
                  WLt(bfields[i].off, WNum(MinLength(bvariant)))

\* C24 as stated: for every width w of 0 .. 65535 the size arraySize computes
\* in arithmetic of 32 bits is the mathematical value (CG: 6 + 4w, IRLS:
\* 3 + w*w + 2w), with no overflow and no wrap-around, so that the last
\* field, logLikelihood, lies inside the array that is allocated.
C24_ArraySizeNoOverflow ==
    /\ bpc # "trapped"
    /\ bpc = "initialized" =>
          /\ ~Overflows(bvariant, bwidth)
          /\ bsize = ArraySizeExact(bvariant, bwidth)
          /\ ~IndexNegative(bfields[Len(bfields)].off)
          /\ WLt(bfields[Len(bfields)].off, bsize)

=============================================================================
